---- MODULE Spec2Model ----
(***************************************************************************)
(* A model of geopandas_osm/osm.py: read_osm and the functions it calls.   *)
(* An OSM XML document, already parsed by ET.fromstring, is turned into    *)
(* five DataFrames (read_nodes, read_ways, read_relations) and optionally  *)
(* rendered to one GeoDataFrame (render_to_gdf, render_nodes, render_ways).*)
(*                                                                         *)
(* An XML element is [tag, attrib, children]; a DataFrame is               *)
(* [cols, index, rows]: the set of column names, the sequence of index     *)
(* labels and the sequence of rows, each row a function from cols to cell  *)
(* values.  DataFrames live in a heap of objects, because the renderer     *)
(* works on references: a pandas call either returns a new object or       *)
(* changes the one it is called on.                                        *)
(***************************************************************************)
EXTENDS Integers, Sequences, FiniteSets, TLC

VARIABLES doc, pc, heap, result

vars == <<doc, pc, heap, result>>

(***************************************************************************)
(* Bounds of the input documents.                                          *)
(***************************************************************************)
MaxTags == 2
MaxNds == 2
MaxNodes == 2
MaxMembers == 2
MaxReorder == 3

(***************************************************************************)
(* Sequence helpers.                                                       *)
(***************************************************************************)
SeqsUpTo(S, n) == UNION {[1..k -> S] : k \in 0..n}

Perms(n) == {p \in [1..n -> 1..n] : \A i, j \in 1..n : p[i] = p[j] => i = j}

(***************************************************************************)
(* Cell values.  NaN is pandas' missing value, NaT its missing date.       *)
(***************************************************************************)
NaN == "NaN"
NaT == "NaT"

IsNull(v) == v \in {NaN, NaT}

\* float(text) for the coordinate texts of the documents; a text outside the
\* domain is one float() rejects (ValueError).
FloatOf == ("1" :> 1) @@ ("1.0" :> 1) @@ ("2" :> 2) @@ ("2.0" :> 2)
             @@ ("5.0" :> 5) @@ ("6.0" :> 6) @@ ("7.0" :> 7)

\* pd.to_datetime(text) for the timestamp texts of the documents; a text
\* outside the domain is one it rejects.
DatetimeOf == ("2014-01-01T00:00:00Z" :> "Timestamp(2014-01-01 00:00:00)")
                @@ ("2014-01-01" :> "Timestamp(2014-01-01 00:00:00)")

\* The label of row i (from 0) of a default RangeIndex.
RangeLabel(i) == "#" \o ToString(i)

RangeIndex(n) == [i \in 1..n |-> RangeLabel(i - 1)]

(***************************************************************************)
(* uninteresting_tags                                                      *)
(***************************************************************************)
uninteresting_tags ==
    {"source", "source_ref", "source:ref", "history", "attribution",
     "created_by", "tiger:county", "tiger:tlid", "tiger:upload_uuid"}

(***************************************************************************)
(* XML elements (xml.etree.ElementTree.Element).                           *)
(***************************************************************************)
Element(tag, attrib, children) ==
    [tag |-> tag, attrib |-> attrib, children |-> children]

\* element.findall(name): the direct children with that tag, in document order.
FindAll(element, name) == SelectSeq(element.children, LAMBDA c : c.tag = name)

\* d[k] = v on a dict.
DictSet(d, k, v) == (k :> v) @@ d

(***************************************************************************)
(* _element_to_dict                                                        *)
(***************************************************************************)
RECURSIVE OverlayTags(_, _)
OverlayTags(d, tags) ==
    IF tags = <<>> THEN d
    ELSE LET t == Head(tags)
             k == t.attrib["k"]
         IN  OverlayTags(IF k \notin uninteresting_tags
                         THEN DictSet(d, k, t.attrib["v"])
                         ELSE d,
                         Tail(tags))

\* _element_to_dict with "if k not in d" for the filter: a tag never replaces
\* a key the dict already has.
RECURSIVE OverlayNewTags(_, _)
OverlayNewTags(d, tags) ==
    IF tags = <<>> THEN d
    ELSE LET t == Head(tags)
             k == t.attrib["k"]
         IN  OverlayNewTags(IF k \notin DOMAIN d
                            THEN DictSet(d, k, t.attrib["v"])
                            ELSE d,
                            Tail(tags))

ElementToDictKeepFirst(element) ==
    OverlayNewTags(element.attrib, FindAll(element, "tag"))

\* _element_to_dict without the filter.
RECURSIVE OverlayAllTags(_, _)
OverlayAllTags(d, tags) ==
    IF tags = <<>> THEN d
    ELSE OverlayAllTags(DictSet(d, Head(tags).attrib["k"], Head(tags).attrib["v"]),
                        Tail(tags))

ElementToDictUnfiltered(element) ==
    OverlayAllTags(element.attrib, FindAll(element, "tag"))

ElementToDict(element) == OverlayTags(element.attrib, FindAll(element, "tag"))

(***************************************************************************)
(* DataFrames.  A raised exception is the record [raised |-> its name].    *)
(***************************************************************************)
Raised(e) == [raised |-> e]

IsRaised(x) == "raised" \in DOMAIN x

EmptyFrame == [cols |-> {}, index |-> <<>>, rows |-> <<>>]

\* DataFrame.empty
IsEmpty(df) == df.cols = {} \/ df.rows = <<>>

\* pd.DataFrame.from_dict(list of dicts): one row per dict, the columns are
\* the union of the keys, a key a dict lacks is NaN in its row.
FromDicts(d) ==
    LET cols == UNION {DOMAIN d[i] : i \in DOMAIN d}
    IN  [cols  |-> cols,
         index |-> RangeIndex(Len(d)),
         rows  |-> [i \in DOMAIN d |->
                      [c \in cols |-> IF c \in DOMAIN d[i] THEN d[i][c] ELSE NaN]]]

ToDatetime(v) == IF IsNull(v) THEN NaT ELSE DatetimeOf[v]

AsFloat(v) == IF IsNull(v) THEN v ELSE FloatOf[v]

(***************************************************************************)
(* _dict_to_dataframe                                                      *)
(***************************************************************************)
DictToDataframe(d) ==
    LET df == FromDicts(d)
    IN  IF "timestamp" \in df.cols
        THEN IF \E i \in DOMAIN df.rows :
                    /\ ~IsNull(df.rows[i]["timestamp"])
                    /\ df.rows[i]["timestamp"] \notin DOMAIN DatetimeOf
             THEN Raised("ValueError")
             ELSE [df EXCEPT !.rows = [i \in DOMAIN df.rows |->
                      [df.rows[i] EXCEPT !["timestamp"] =
                           ToDatetime(df.rows[i]["timestamp"])]]]
        ELSE df

\* df[col] = df[col].astype(float)
AsTypeFloat(df, col) ==
    IF IsRaised(df) THEN df
    ELSE IF col \notin df.cols THEN Raised("KeyError")
    ELSE IF \E i \in DOMAIN df.rows :
                /\ ~IsNull(df.rows[i][col])
                /\ df.rows[i][col] \notin DOMAIN FloatOf
         THEN Raised("ValueError")
    ELSE [df EXCEPT !.rows = [i \in DOMAIN df.rows |->
             [df.rows[i] EXCEPT ![col] = AsFloat(df.rows[i][col])]]]

(***************************************************************************)
(* read_nodes                                                              *)
(***************************************************************************)
NodeDicts(d) ==
    LET xmlnodes == FindAll(d, "node")
    IN  [i \in DOMAIN xmlnodes |-> ElementToDict(xmlnodes[i])]

read_nodes(d) ==
    AsTypeFloat(AsTypeFloat(DictToDataframe(NodeDicts(d)), "lon"), "lat")

(***************************************************************************)
(* read_ways and read_relations: the link rows of one parent element       *)
(* (a way's nd children, a relation's member children).                    *)
(***************************************************************************)
\* The link row with enumerate(..., 1): positions from 1.
LinkRowFromOne(child, parentid, i) ==
    DictSet(DictSet(child.attrib, "id", parentid), "index", i + 1)

LinkRow(child, parentid, i) ==
    DictSet(DictSet(child.attrib, "id", parentid), "index", i)

\* The link rows with the position taken from the end.
LinkRowsFromEnd(parent, childtag) ==
    LET xs == FindAll(parent, childtag)
    IN  [i \in DOMAIN xs |-> LinkRow(xs[i], parent.attrib["id"], Len(xs) - i)]

LinkRows(parent, childtag) ==
    LET xs == FindAll(parent, childtag)
    IN  [i \in DOMAIN xs |-> LinkRow(xs[i], parent.attrib["id"], i - 1)]

\* The list the loop over the parents appends to.
RECURSIVE AllLinkRows(_, _)
AllLinkRows(parents, childtag) ==
    IF parents = <<>> THEN <<>>
    ELSE LinkRows(Head(parents), childtag) \o AllLinkRows(Tail(parents), childtag)

TagRows(parents) == [i \in DOMAIN parents |-> ElementToDict(parents[i])]

read_ways(d) ==
    [waynodes |-> DictToDataframe(AllLinkRows(FindAll(d, "way"), "nd")),
     waytags  |-> DictToDataframe(TagRows(FindAll(d, "way")))]

read_relations(d) ==
    [relmembers |-> DictToDataframe(AllLinkRows(FindAll(d, "relation"), "member")),
     reltags    |-> DictToDataframe(TagRows(FindAll(d, "relation")))]

(***************************************************************************)
(* The heap of DataFrame objects.  A call that returns a new object        *)
(* allocates it under the name of its call site; a call with inplace=True  *)
(* changes the object it is called on.  A call's outcome is                *)
(* [heap, ref] (ref = "None" for Python's None) or [heap, raised].         *)
(***************************************************************************)
BundleRefs == {"nodes", "waynodes", "waytags", "relmembers", "reltags"}

None == "None"

Returns(h, ref) == [heap |-> h, ref |-> ref]

Raises(h, e) == [heap |-> h, raised |-> e]

\* A new object holding df.
New(h, site, df) == Returns((site :> df) @@ h, site)

\* The rows of df at the positions keep (an increasing sequence), with their labels.
TakeRows(df, keep) ==
    [df EXCEPT !.index = [i \in DOMAIN keep |-> df.index[keep[i]]],
               !.rows  = [i \in DOMAIN keep |-> df.rows[keep[i]]]]

\* df.dropna(subset=subset, how='all'): a new frame without the rows whose
\* cells in subset are all null.
DfDropnaAll(h, ref, subset, site) ==
    LET df == h[ref]
        HasValue(i) == \E c \in subset : ~IsNull(df.rows[i][c])
    IN  New(h, site,
            TakeRows(df, SelectSeq([i \in DOMAIN df.rows |-> i], HasValue)))

\* df.drop(labels, axis=1) done in place: the object itself loses the columns.
DfDropColumnsInplace(h, ref, labels, site) ==
    LET df == h[ref]
        cols == df.cols \ labels
    IN  Returns([h EXCEPT ![ref] =
                   [df EXCEPT !.cols = cols,
                              !.rows = [i \in DOMAIN df.rows |->
                                          [c \in cols |-> df.rows[i][c]]]]], ref)

\* df.drop(labels, axis=1): a new frame without the columns labels.
DfDropColumns(h, ref, labels, site) ==
    LET df == h[ref]
        cols == df.cols \ labels
    IN  IF ~(labels \subseteq df.cols) THEN Raises(h, "KeyError")
        ELSE New(h, site,
                 [df EXCEPT !.cols = cols,
                            !.rows = [i \in DOMAIN df.rows |->
                                        [c \in cols |-> df.rows[i][c]]]])

\* A frame with column col set to values[i] in row i.
WithColumn(df, col, values) ==
    [df EXCEPT !.cols = df.cols \cup {col},
               !.rows = [i \in DOMAIN df.rows |->
                           [c \in df.cols \cup {col} |->
                              IF c = col THEN values[i] ELSE df.rows[i][c]]]]

(***************************************************************************)
(* shapely geometries.                                                     *)
(***************************************************************************)
Point(x, y) == [kind |-> "Point", coords |-> <<<<x, y>>>>]

\* LineString(coordinates) rejects a single coordinate.
LineStringOk(coords) == Len(coords) # 1

LineString(coords) == [kind |-> "LineString", coords |-> coords]

\* The missing geometry of a row no line was aligned to.
NoGeometry == [kind |-> "None", coords |-> <<>>]

\* DataFrame.set_geometry(list): geopandas copies the frame into a new
\* GeoDataFrame and sets its geometry column by position.
DfSetGeometryList(h, ref, points, site) ==
    New(h, site, WithColumn(h[ref], "geometry", points))

\* DataFrame.set_geometry(series): the same, the series aligned on the index
\* labels; a label the series lacks gets no geometry.
DfSetGeometrySeries(h, ref, series, site) ==
    LET df == h[ref]
    IN  New(h, site,
            WithColumn(df, "geometry",
                       [i \in DOMAIN df.rows |->
                          IF df.index[i] \in DOMAIN series
                          THEN series[df.index[i]] ELSE NoGeometry]))

\* df.set_index(col): a new frame whose index labels are the cells of col.
DfSetIndex(h, ref, col, site) ==
    LET df == h[ref]
        cols == df.cols \ {col}
    IN  New(h, site,
            [cols  |-> cols,
             index |-> [i \in DOMAIN df.rows |-> df.rows[i][col]],
             rows  |-> [i \in DOMAIN df.rows |->
                          [c \in cols |-> df.rows[i][c]]]])

\* df.reset_index(inplace=True): the object itself gets its index labels back
\* as column col and a default index.
DfResetIndexInplace(h, ref, col) ==
    LET df == h[ref]
    IN  [h EXCEPT ![ref] =
           [WithColumn(df, col, df.index) EXCEPT !.index = RangeIndex(Len(df.rows))]]

\* df.append(other): a new frame, the rows of df then those of other, over
\* the union of the columns.
DfAppend(h, ref, other, site) ==
    LET a == h[ref]
        b == h[other]
        cols == a.cols \cup b.cols
        Fill(df) == [i \in DOMAIN df.rows |->
                       [c \in cols |-> IF c \in df.cols THEN df.rows[i][c] ELSE NaN]]
    IN  New(h, site, [cols  |-> cols,
                      index |-> a.index \o b.index,
                      rows  |-> Fill(a) \o Fill(b)])

\* GeoDataFrame.set_geometry(col) with the name of a column the frame has:
\* a new frame with the same cells.
DfSetGeometryColumn(h, ref, col, site) ==
    IF col \notin h[ref].cols THEN Raises(h, "KeyError")
    ELSE New(h, site, h[ref])

(***************************************************************************)
(* render_nodes                                                            *)
(***************************************************************************)
NodeKeyColumns == {"id", "lon", "lat"}

render_nodes(h, nodes, drop_untagged) ==
    IF ~(NodeKeyColumns \subseteq h[nodes].cols) THEN Raises(h, "KeyError")
    ELSE
    LET a == IF drop_untagged
             THEN DfDropnaAll(h, nodes, h[nodes].cols \ NodeKeyColumns,
                              "render_nodes.dropna")
             ELSE Returns(h, nodes)
        df == a.heap[a.ref]
        points == [i \in DOMAIN df.rows |->
                     Point(df.rows[i]["lon"], df.rows[i]["lat"])]
        b == DfDropColumns(a.heap, a.ref, {"lon", "lat"}, "render_nodes.drop")
    IN  IF IsRaised(b) THEN b
        ELSE DfSetGeometryList(b.heap, b.ref, points, "render_nodes.set_geometry")

(***************************************************************************)
(* render_ways                                                             *)
(***************************************************************************)
\* left.merge(right, left_on='ref', right_on='id', suffixes=('', '_nodes')):
\* one row per pair of a left row and a right row with right.id = left.ref,
\* in the order of the left rows; a right column the left frame also has is
\* renamed with the suffix.
MergedName(left, c) == IF c \in left.cols THEN c \o "_nodes" ELSE c

MergedRow(left, right, l, r) ==
    [c \in left.cols \cup {MergedName(left, x) : x \in right.cols} |->
        IF c \in left.cols THEN l[c]
        ELSE r[CHOOSE x \in right.cols : MergedName(left, x) = c]]

RECURSIVE MergedRows(_, _, _)
MergedRows(left, right, i) ==
    IF i > Len(left.rows) THEN <<>>
    ELSE LET l == left.rows[i]
             matches == SelectSeq(right.rows, LAMBDA r : r["id"] = l["ref"])
         IN  [j \in DOMAIN matches |-> MergedRow(left, right, l, matches[j])]
             \o MergedRows(left, right, i + 1)

Merge(left, right) ==
    LET rows == MergedRows(left, right, 1)
    IN  [cols  |-> left.cols \cup {MergedName(left, x) : x \in right.cols},
         index |-> RangeIndex(Len(rows)),
         rows  |-> rows]

\* nodes[['id', 'lon', 'lat']]
NodePoints(nodes) ==
    [nodes EXCEPT !.cols = NodeKeyColumns,
                  !.rows = [i \in DOMAIN nodes.rows |->
                              [c \in NodeKeyColumns |-> nodes.rows[i][c]]]]

\* The rows of one group of groupby('id').
Group(df, key) == SelectSeq(df.rows, LAMBDA r : r["id"] = key)

\* wayline: df.sort_values(by='index')[['lon', 'lat']] as coordinates.  The
\* sort is not a stable one: rows with equal index come in any order.
RECURSIVE IndexOrders(_, _)
IndexOrders(g, left) ==
    IF left = {} THEN {<<>>}
    ELSE UNION {{<<g[i]>> \o s : s \in IndexOrders(g, left \ {i})} :
                  i \in {m \in left : \A j \in left : g[m]["index"] <= g[j]["index"]}}

\* wayline without the sort: the rows in the order of the merge.
MergeOrder(g) == {g}

SortedByIndex(g) == IndexOrders(g, DOMAIN g)

Coordinates(g) == [i \in DOMAIN g |-> <<g[i]["lon"], g[i]["lat"]>>]

wayline(g) == {LineString(Coordinates(s)) : s \in SortedByIndex(g)}

\* waynodes.groupby('id').apply(wayline): the Series from way id to line,
\* one for every way the sorts can come out.
WayLines(merged) ==
    LET keys == {merged.rows[i]["id"] : i \in DOMAIN merged.rows}
        lines == UNION {wayline(Group(merged, k)) : k \in keys}
    IN  {s \in [keys -> lines] : \A k \in keys : s[k] \in wayline(Group(merged, k))}

\* LineString raises for a group of one row.
WayLinesRaise(merged) ==
    \E i \in DOMAIN merged.rows :
        ~LineStringOk(Group(merged, merged.rows[i]["id"]))

\* The lines merged into the way tags: lines 309-312.
WaysWithLines(h, waytags, way_lines) ==
    LET a == DfSetIndex(h, waytags, "id", "render_ways.set_index")
        b == DfSetGeometrySeries(a.heap, a.ref, way_lines, "render_ways.set_geometry")
    IN  Returns(DfResetIndexInplace(b.heap, b.ref, "id"), b.ref)

\* The outcomes of render_ways.  What groupby().apply() returns for a frame
\* without rows depends on the pandas release: a frame, which set_geometry
\* rejects, or an empty Series.
render_ways(h, nodes, waynodes, waytags) ==
    IF IsEmpty(h[waynodes]) THEN {Returns(h, None)}
    ELSE IF ~(NodeKeyColumns \subseteq h[nodes].cols) \/ "ref" \notin h[waynodes].cols
         THEN {Raises(h, "KeyError")}
    ELSE LET merged == Merge(h[waynodes], NodePoints(h[nodes]))
         IN  IF merged.rows = <<>>
             THEN {Raises(h, "ValueError"), WaysWithLines(h, waytags, <<>>)}
             ELSE IF WayLinesRaise(merged) THEN {Raises(h, "ValueError")}
             ELSE {WaysWithLines(h, waytags, s) : s \in WayLines(merged)}

(***************************************************************************)
(* render_to_gdf                                                           *)
(***************************************************************************)
AppendWays(n, w) ==
    IF IsRaised(w) THEN w
    ELSE IF w.ref = None THEN Returns(w.heap, n.ref)
    ELSE LET a == DfAppend(w.heap, n.ref, w.ref, "render_to_gdf.append")
         IN  DfSetGeometryColumn(a.heap, a.ref, "geometry",
                                 "render_to_gdf.set_geometry")

render_to_gdf(h, drop_untagged) ==
    LET n == render_nodes(h, "nodes", drop_untagged)
    IN  IF IsRaised(n) THEN {n}
        ELSE {AppendWays(n, w) :
                w \in render_ways(n.heap, "nodes", "waynodes", "waytags")}

(***************************************************************************)
(* The input documents: well-formed OSM XML as ET.fromstring returns it.   *)
(***************************************************************************)
NoAttrib == [k \in {} |-> ""]

Tag(k, v) == Element("tag", [k |-> k, v |-> v], <<>>)

Nd(ref, extra) == Element("nd", ("ref" :> ref) @@ extra, <<>>)

Member(type, ref, role, extra) ==
    Element("member", [type |-> type, ref |-> ref, role |-> role] @@ extra, <<>>)

Node(id, lon, lat, extra, tags) ==
    Element("node", [id |-> id, lon |-> lon, lat |-> lat] @@ extra, tags)

Way(id, extra, nds, tags) == Element("way", ("id" :> id) @@ extra, nds \o tags)

Relation(id, extra, members, tags) ==
    Element("relation", ("id" :> id) @@ extra, members \o tags)

Osm(nodes, ways, relations) ==
    Element("osm", [version |-> "0.6"], nodes \o ways \o relations)

\* Node 1 at (1, 5), node 2 at (2, 6); N1b is a second element with id 1.
N1 == Node("1", "1.0", "5.0", NoAttrib, <<>>)
N2 == Node("2", "2", "6.0", NoAttrib, <<>>)
N1b == Node("1", "2.0", "7.0", NoAttrib, <<>>)

\* Node 1 with a denylisted tag and another one.
N1s == Node("1", "1.0", "5.0", NoAttrib, <<Tag("source", "s"), Tag("highway", "a")>>)

W12 == Way("1", NoAttrib, <<Nd("1", NoAttrib), Nd("2", NoAttrib)>>,
           <<Tag("highway", "a")>>)

\* Documents of one element with any attributes and tags.
TagAlphabet == {Tag("highway", "a"), Tag("highway", "b"), Tag("source", "s"),
                Tag("id", "9")}

ExtraAttribs == {NoAttrib, ("source" :> "x"), ("version" :> "3"),
                 ("timestamp" :> "2014-01-01"), ("timestamp" :> "bad")}

DocsOneElement ==
    UNION {{Osm(<<Node("1", "1.0", "5.0", x, t)>>, <<>>, <<>>),
            Osm(<<N1, N2>>, <<Way("1", x, <<Nd("1", NoAttrib), Nd("2", NoAttrib)>>, t)>>, <<>>),
            Osm(<<N1, N2>>, <<>>,
                <<Relation("7", x, <<Member("way", "1", "outer", NoAttrib)>>, t)>>)} :
           x \in ExtraAttribs, t \in SeqsUpTo(TagAlphabet, MaxTags)}

\* Documents of up to MaxNodes nodes, tagged or not.
NodeVariants ==
    {<<NoAttrib, <<>>>>,
     <<NoAttrib, <<Tag("highway", "a")>>>>,
     <<NoAttrib, <<Tag("source", "s")>>>>,
     <<NoAttrib, <<Tag("id", "9")>>>>,
     <<NoAttrib, <<Tag("lon", "x")>>>>,
     <<NoAttrib, <<Tag("lon", "7.0")>>>>,
     <<("version" :> "3"), <<>>>>,
     <<NoAttrib, <<Tag("highway", "b"), Tag("source", "s")>>>>}

PlainVariants ==
    {<<NoAttrib, <<>>>>,
     <<NoAttrib, <<Tag("highway", "a")>>>>,
     <<NoAttrib, <<Tag("id", "9")>>>>}

NodeAlts ==
    {Node("1", "1.0", "5.0", v[1], v[2]) : v \in NodeVariants}
      \cup {Node("2", "2", "6.0", v[1], v[2]) : v \in PlainVariants}

DocsNodes ==
    {Osm(ns, ws, <<>>) : ns \in SeqsUpTo(NodeAlts, MaxNodes), ws \in {<<>>, <<W12>>}}

\* Documents of one way with up to MaxNds node references, alone or beside a
\* second way; reference 3 is to a node no document has.
Refs == {"1", "2", "3"}

WayTagOptions == {<<>>, <<Tag("highway", "a")>>, <<Tag("id", "2")>>}

FocusWays ==
    {Way("1", NoAttrib, [i \in DOMAIN refs |-> Nd(refs[i], NoAttrib)], t) :
        refs \in SeqsUpTo(Refs, MaxNds), t \in WayTagOptions}

CompanionWays ==
    {Way("1", NoAttrib, <<Nd("2", NoAttrib), Nd("1", NoAttrib)>>, <<>>),
     Way("2", NoAttrib, <<Nd("2", NoAttrib), Nd("1", NoAttrib)>>,
         <<Tag("highway", "b")>>),
     Way("2", NoAttrib, <<>>, <<>>),
     Way("2", NoAttrib, <<Nd("3", ("source" :> "x"))>>, <<Tag("source", "s")>>)}

WayLists ==
    {<<>>} \cup {<<w>> : w \in FocusWays}
           \cup UNION {{<<w, c>>, <<c, w>>} : w \in FocusWays, c \in CompanionWays}

NodeLists == {<<N1, N2>>, <<N2, N1>>, <<N1>>, <<N1, N2, N1b>>}

DocsWays == {Osm(ns, ws, <<>>) : ns \in NodeLists, ws \in WayLists}

\* Documents of one relation with up to MaxMembers members, alone or beside
\* a second relation, with or without nodes and ways.
MemberAlts == {Member("way", "1", "outer", NoAttrib),
               Member("node", "2", "", NoAttrib),
               Member("relation", "7", "inner", ("source" :> "x"))}

RelTagOptions == {<<>>, <<Tag("type", "boundary")>>, <<Tag("source", "s")>>}

FocusRelations ==
    {Relation("7", x, m, t) :
        x \in {NoAttrib, ("source" :> "x")},
        m \in SeqsUpTo(MemberAlts, MaxMembers), t \in RelTagOptions}

R8 == Relation("8", NoAttrib, <<Member("way", "1", "outer", NoAttrib)>>,
               <<Tag("name", "c")>>)

RelationLists ==
    {<<>>} \cup {<<r>> : r \in FocusRelations} \cup {<<r, R8>> : r \in FocusRelations}

DocsRelations ==
    {Osm(ns, ws, rs) :
        ns \in {<<>>, <<N1, N2>>, <<N1s, N2>>}, ws \in {<<>>, <<W12>>}, rs \in RelationLists}

Docs == DocsOneElement \cup DocsNodes \cup DocsWays \cup DocsRelations

(***************************************************************************)
(* read_osm, step by step.  pc is the place reached:                       *)
(*   parsed       doc = ET.fromstring(content) has returned                *)
(*   nodes_read   read_nodes has returned                                  *)
(*   ways_read    read_ways has returned                                   *)
(*   data         read_relations has returned, the OSMData is built        *)
(*   returned     read_osm(render=False) has returned the OSMData          *)
(*   reordered    the caller has reordered the rows of a returned table    *)
(*   rendered     render_to_gdf has returned its GeoDataFrame              *)
(*   raised       an exception has left read_osm or render_to_gdf          *)
(***************************************************************************)
NoResult == [kind |-> "none"]

RaisedIn(where, e) == [kind |-> "raised", where |-> where, error |-> e]

Init ==
    /\ doc \in Docs
    /\ pc = "parsed"
    /\ heap = [r \in {} |-> EmptyFrame]
    /\ result = NoResult

ReadNodes ==
    /\ pc = "parsed"
    /\ LET nodes == read_nodes(doc)
       IN  IF IsRaised(nodes)
           THEN /\ pc' = "raised"
                /\ result' = RaisedIn("read_nodes", nodes.raised)
                /\ heap' = heap
           ELSE /\ pc' = "nodes_read"
                /\ heap' = ("nodes" :> nodes) @@ heap
                /\ result' = result
    /\ UNCHANGED doc

ReadWays ==
    /\ pc = "nodes_read"
    /\ LET r == read_ways(doc)
       IN  IF IsRaised(r.waynodes) \/ IsRaised(r.waytags)
           THEN /\ pc' = "raised"
                /\ result' = RaisedIn("read_ways", "ValueError")
                /\ heap' = heap
           ELSE /\ pc' = "ways_read"
                /\ heap' = ("waynodes" :> r.waynodes) @@ ("waytags" :> r.waytags) @@ heap
                /\ result' = result
    /\ UNCHANGED doc

ReadRelations ==
    /\ pc = "ways_read"
    /\ LET r == read_relations(doc)
       IN  IF IsRaised(r.relmembers) \/ IsRaised(r.reltags)
           THEN /\ pc' = "raised"
                /\ result' = RaisedIn("read_relations", "ValueError")
                /\ heap' = heap
           ELSE /\ pc' = "data"
                /\ heap' = ("relmembers" :> r.relmembers) @@ ("reltags" :> r.reltags) @@ heap
                /\ result' = result
    /\ UNCHANGED doc

\* read_osm(content, render=False): the OSMData itself is returned.
ReturnData ==
    /\ pc = "data"
    /\ pc' = "returned"
    /\ result' = [kind |-> "OSMData"]
    /\ UNCHANGED <<doc, heap>>

\* The objects that outlive a call: the five tables.
Live(h) == [r \in BundleRefs |-> h[r]]

\* render_to_gdf(data, drop_untagged), called by read_osm(render=True) or by
\* the caller on the OSMData read_osm(render=False) returned.
RenderToGdf ==
    /\ pc \in {"data", "returned", "reordered"}
    /\ \E drop_untagged \in BOOLEAN :
         \E out \in render_to_gdf(heap, drop_untagged) :
            /\ heap' = Live(out.heap)
            /\ IF IsRaised(out)
               THEN /\ pc' = "raised"
                    /\ result' = RaisedIn("render_to_gdf", out.raised)
               ELSE /\ pc' = "rendered"
                    /\ result' = [kind |-> "GeoDataFrame",
                                  drop_untagged |-> drop_untagged,
                                  frame |-> out.heap[out.ref]]
    /\ UNCHANGED doc

\* The caller of render_to_gdf passes the tables in the row order it likes:
\* between read_osm(render=False) and render_to_gdf it reorders the rows of
\* waynodes (each row keeps its index label).
Permuted(df, p) ==
    [df EXCEPT !.index = [i \in DOMAIN df.rows |-> df.index[p[i]]],
               !.rows  = [i \in DOMAIN df.rows |-> df.rows[p[i]]]]

Reorder ==
    /\ pc = "returned"
    /\ Len(heap["waynodes"].rows) <= MaxReorder
    /\ \E p \in Perms(Len(heap["waynodes"].rows)) :
          /\ Permuted(heap["waynodes"], p) # heap["waynodes"]
          /\ heap' = [heap EXCEPT !["waynodes"] = Permuted(heap["waynodes"], p)]
    /\ pc' = "reordered"
    /\ UNCHANGED <<doc, result>>

Next ==
    \/ ReadNodes
    \/ ReadWays
    \/ ReadRelations
    \/ ReturnData
    \/ RenderToGdf
    \/ Reorder

Spec == Init /\ [][Next]_vars

(***************************************************************************)
(* The properties.                                                         *)
(***************************************************************************)
Nodes == FindAll(doc, "node")
Ways == FindAll(doc, "way")
Relations == FindAll(doc, "relation")

\* The tables are as the readers built them.
WaysRead == pc \in {"ways_read", "data"}

RECURSIVE CountChildren(_, _)
CountChildren(parents, childtag) ==
    IF parents = <<>> THEN 0
    ELSE Len(FindAll(Head(parents), childtag)) + CountChildren(Tail(parents), childtag)

\* The number of nd elements of the ways before way k.
NdsBefore(k) == CountChildren(SubSeq(Ways, 1, k - 1), "nd")

\* The cells of a row that are not null, as a dict.
NonNull(row) == [c \in {x \in DOMAIN row : ~IsNull(row[x])} |-> row[c]]

\* C1: read_ways emits, for every way element with N nd children, exactly N
\* WayNodes rows carrying the way's id, the nd refs and the index values
\* 0..N-1 in document order, and exactly one WayTags row; N = 0 is no
\* failure (read_ways fails only on a timestamp pd.to_datetime rejects).
C1_WayRows ==
    /\ WaysRead =>
         LET wn == heap["waynodes"].rows
             wt == heap["waytags"].rows
         IN  /\ Len(wn) = CountChildren(Ways, "nd")
             /\ Len(wt) = Len(Ways)
             /\ \A k \in DOMAIN Ways :
                  LET nds == FindAll(Ways[k], "nd")
                  IN  /\ DOMAIN NonNull(wt[k]) = DOMAIN ElementToDict(Ways[k])
                      /\ wt[k]["id"] = ElementToDict(Ways[k])["id"]
                      /\ \A i \in DOMAIN nds :
                           LET row == wn[NdsBefore(k) + i]
                           IN  /\ row["id"] = Ways[k].attrib["id"]
                               /\ row["ref"] = nds[i].attrib["ref"]
                               /\ row["index"] = i - 1
    /\ (pc = "raised" /\ result.where = "read_ways") =>
         \E k \in DOMAIN Ways :
            /\ "timestamp" \in DOMAIN Ways[k].attrib
            /\ Ways[k].attrib["timestamp"] \notin DOMAIN DatetimeOf

\* A way without nd children beside a way with MaxNds of them has been read.
C1_Witness ==
    /\ pc = "ways_read"
    /\ \E k \in DOMAIN Ways : FindAll(Ways[k], "nd") = <<>>
    /\ \E k \in DOMAIN Ways : Len(FindAll(Ways[k], "nd")) = MaxNds
    /\ Len(heap["waynodes"].rows) = MaxNds

\* C7: _element_to_dict returns a mapping whose keys are the element's
\* attribute names and the keys of its non-denylisted tags; a key only an
\* attribute has keeps the attribute's value, a key a non-denylisted tag has
\* maps to the value of the last such tag.
KeptTags(e) ==
    SelectSeq(FindAll(e, "tag"), LAMBDA t : t.attrib["k"] \notin uninteresting_tags)

C7_Flatten ==
    \A n \in DOMAIN doc.children :
       LET e == doc.children[n]
           kept == KeptTags(e)
           d == ElementToDict(e)
           Sets(k) == {i \in DOMAIN kept : kept[i].attrib["k"] = k}
       IN  /\ DOMAIN d = DOMAIN e.attrib \cup {kept[i].attrib["k"] : i \in DOMAIN kept}
           /\ \A k \in DOMAIN d :
                IF Sets(k) = {} THEN d[k] = e.attrib[k]
                ELSE d[k] = kept[CHOOSE i \in Sets(k) : \A j \in Sets(k) : j <= i].attrib["v"]
           /\ FindAll(e, "tag") = <<>> => d = e.attrib

\* A way with two highway tags and one with an id tag have been flattened
\* into WayTags rows.
C7_Witness ==
    /\ pc = "ways_read"
    /\ \E k \in DOMAIN Ways :
          /\ Len(KeptTags(Ways[k])) = 2
          /\ KeptTags(Ways[k])[1].attrib["k"] = KeptTags(Ways[k])[2].attrib["k"]
          /\ KeptTags(Ways[k])[1].attrib["v"] # KeptTags(Ways[k])[2].attrib["v"]
          /\ heap["waytags"].rows[k]["highway"] = KeptTags(Ways[k])[2].attrib["v"]

\* C9 as claimed: in WayNodes, for each distinct id, the rows with that id
\* have the index values 0, 1, 2, ... in table order.
RowsOf(df, id) == SelectSeq(df.rows, LAMBDA r : r["id"] = id)

IndexCountsFromZero(df, id) ==
    \A i \in DOMAIN RowsOf(df, id) : RowsOf(df, id)[i]["index"] = i - 1

C9_Claimed ==
    WaysRead =>
       \A r \in DOMAIN heap["waynodes"].rows :
          IndexCountsFromZero(heap["waynodes"], heap["waynodes"].rows[r]["id"])

\* C9 amended: the index restarts at 0 with every way element and increases
\* by 1 inside it, so that id and index identify a row whenever no two way
\* elements have the same id.
DistinctWayIds ==
    \A j, k \in DOMAIN Ways : Ways[j].attrib["id"] = Ways[k].attrib["id"] => j = k

C9_IndexPerWay ==
    WaysRead =>
       LET wn == heap["waynodes"].rows
       IN  /\ \A r \in DOMAIN wn :
                \/ wn[r]["index"] = 0
                \/ /\ r > 1
                   /\ wn[r]["index"] = wn[r - 1]["index"] + 1
                   /\ wn[r]["id"] = wn[r - 1]["id"]
           /\ \A k \in DOMAIN Ways :
                \A i \in 1..Len(FindAll(Ways[k], "nd")) :
                   i > 1 => wn[NdsBefore(k) + i]["index"] # 0
           /\ DistinctWayIds =>
                /\ \A r \in DOMAIN wn : IndexCountsFromZero(heap["waynodes"], wn[r]["id"])
                /\ \A q, r \in DOMAIN wn :
                     (wn[q]["id"] = wn[r]["id"] /\ wn[q]["index"] = wn[r]["index"]) => q = r

\* Two ways with the same id, each with node references, have been read.
C9_Witness ==
    /\ pc = "ways_read"
    /\ ~DistinctWayIds
    /\ \A k \in DOMAIN Ways : Len(FindAll(Ways[k], "nd")) >= 2

\* The attribute names of the elements xs.
AttribNames(xs) == UNION {DOMAIN xs[i].attrib : i \in DOMAIN xs}

RECURSIVE AllChildren(_, _)
AllChildren(parents, childtag) ==
    IF parents = <<>> THEN <<>>
    ELSE FindAll(Head(parents), childtag) \o AllChildren(Tail(parents), childtag)

\* The elements whose attributes and tags make the columns of a table.
ElementsOf(table) ==
    CASE table = "nodes"      -> Nodes
      [] table = "waytags"    -> Ways
      [] table = "waynodes"   -> AllChildren(Ways, "nd")
      [] table = "reltags"    -> Relations
      [] table = "relmembers" -> AllChildren(Relations, "member")

Rendered == pc = "rendered"

\* C3 as claimed: no table and no rendered record has a denylisted key as a
\* column, whatever the input, a key that is a native XML attribute included.
C3_Claimed ==
    /\ \A t \in DOMAIN heap : heap[t].cols \cap uninteresting_tags = {}
    /\ Rendered => result.frame.cols \cap uninteresting_tags = {}

\* C3 amended: a denylisted key never becomes a column through a child tag;
\* a table or the rendered frame has a denylisted column only if an element
\* of its kind has a native XML attribute of that name.
C3_OnlyFromAttributes ==
    /\ \A t \in DOMAIN heap :
          heap[t].cols \cap uninteresting_tags \subseteq AttribNames(ElementsOf(t))
    /\ Rendered =>
          result.frame.cols \cap uninteresting_tags \subseteq AttribNames(Nodes \o Ways)

\* A node and a relation with a source tag have been read, beside a way, and
\* rendered: no table and no rendered record has a source column.
HasTag(e, k) == \E i \in DOMAIN FindAll(e, "tag") : FindAll(e, "tag")[i].attrib["k"] = k

C3_Witness ==
    /\ Rendered
    /\ \E i \in DOMAIN Nodes : HasTag(Nodes[i], "source")
    /\ \E i \in DOMAIN Relations : HasTag(Relations[i], "source")
    /\ Ways # <<>>
    /\ \A t \in DOMAIN heap : "source" \notin heap[t].cols
    /\ "source" \notin result.frame.cols
    /\ result.frame.rows # <<>>

\* C6 as claimed: a document without elements of one kind is read without
\* error, and the tables of that kind have no rows.
NoRows(t) == t \in DOMAIN heap => heap[t].rows = <<>>

FailedIn(where) == pc = "raised" /\ result.where = where

C6_Claimed ==
    /\ Nodes = <<>> => ~FailedIn("read_nodes") /\ NoRows("nodes")
    /\ Ways = <<>> => ~FailedIn("read_ways") /\ NoRows("waynodes") /\ NoRows("waytags")
    /\ Relations = <<>> =>
          ~FailedIn("read_relations") /\ NoRows("relmembers") /\ NoRows("reltags")

(***************************************************************************)
(* The rendered frame: the point rows of render_nodes, then one row per    *)
(* WayTags row from render_ways.                                           *)
(***************************************************************************)
Frame == result.frame

IsPointRow(r) == r["geometry"].kind = "Point"

WayPart == SelectSeq(Frame.rows, LAMBDA r : ~IsPointRow(r))

\* Node element i (its row of the Nodes table has the label of position i)
\* is a point of the rendered frame.
PointOf(i) ==
    {r \in DOMAIN Frame.rows :
        Frame.index[r] = RangeLabel(i - 1) /\ IsPointRow(Frame.rows[r])}

\* The rows of the Nodes table with id a, and their coordinates.
NodeRowsWith(a) == {j \in DOMAIN heap["nodes"].rows : heap["nodes"].rows[j]["id"] = a}

CoordsOf(a) ==
    {<<heap["nodes"].rows[i]["lon"], heap["nodes"].rows[i]["lat"]>> : i \in NodeRowsWith(a)}

RefsOf(w) == [i \in DOMAIN FindAll(w, "nd") |-> FindAll(w, "nd")[i].attrib["ref"]]

Resolvable(w) == SelectSeq(RefsOf(w), LAMBDA a : CoordsOf(a) # {})

\* The coordinate sequences refs stands for.
LinesOf(refs) ==
    {s \in [DOMAIN refs -> UNION {CoordsOf(refs[i]) : i \in DOMAIN refs}] :
        \A i \in DOMAIN refs : s[i] \in CoordsOf(refs[i])}

DistinctNodeIds ==
    \A i, j \in DOMAIN heap["nodes"].rows :
        heap["nodes"].rows[i]["id"] = heap["nodes"].rows[j]["id"] => i = j

\* C2 as claimed: for any way whose node references all resolve to rows of
\* the Nodes table, the line render_ways returns for the way's id has the
\* coordinates of the references, in reference order.
LineRowsOf(id) ==
    {r \in DOMAIN WayPart :
        WayPart[r]["id"] = id /\ WayPart[r]["geometry"].kind = "LineString"}

C2_Claimed ==
    Rendered =>
       \A k \in DOMAIN Ways :
          (RefsOf(Ways[k]) # <<>> /\ Resolvable(Ways[k]) = RefsOf(Ways[k])) =>
             \A r \in LineRowsOf(Ways[k].attrib["id"]) :
                WayPart[r]["geometry"].coords \in LinesOf(RefsOf(Ways[k]))

\* C2 amended: the same for any way whose id no other way element has and
\* whose references each resolve to exactly one row of the Nodes table.
C2_ReferenceOrder ==
    Rendered =>
       \A k \in DOMAIN Ways :
          ( /\ RefsOf(Ways[k]) # <<>>
            /\ \A j \in DOMAIN Ways : Ways[j].attrib["id"] = Ways[k].attrib["id"] => j = k
            /\ \A i \in DOMAIN RefsOf(Ways[k]) : Cardinality(NodeRowsWith(RefsOf(Ways[k])[i])) = 1 ) =>
             \A r \in LineRowsOf(Ways[k].attrib["id"]) :
                WayPart[r]["geometry"].coords \in LinesOf(RefsOf(Ways[k]))

\* A way from node 2 to node 1, in a document that lists node 1 first, has
\* been rendered from a WayNodes table whose rows the caller reordered.
C2_Witness ==
    /\ Rendered
    /\ heap["waynodes"] # read_ways(doc).waynodes
    /\ heap["nodes"].rows[1]["id"] = "1"
    /\ \E k \in DOMAIN Ways :
          /\ RefsOf(Ways[k]) = <<"2", "1">>
          /\ \A j \in DOMAIN Ways : Ways[j].attrib["id"] = Ways[k].attrib["id"] => j = k
          /\ LineRowsOf(Ways[k].attrib["id"]) # {}
          /\ \A r \in LineRowsOf(Ways[k].attrib["id"]) :
                WayPart[r]["geometry"].coords = <<<<2, 6>>, <<1, 5>>>>

\* Documents in which ids are what identify the elements: no two ways and no
\* two nodes with the same id, no tag with the key of a native column.
PlainIds ==
    /\ DistinctWayIds
    /\ \A i, j \in DOMAIN Nodes : Nodes[i].attrib["id"] = Nodes[j].attrib["id"] => i = j
    /\ \A i \in DOMAIN Nodes : \A c \in NodeKeyColumns : ~HasTag(Nodes[i], c)
    /\ \A k \in DOMAIN Ways : ~HasTag(Ways[k], "id")

\* The same, the tags of the ways left free.
PlainIdsButTags ==
    /\ DistinctWayIds
    /\ \A i, j \in DOMAIN Nodes : Nodes[i].attrib["id"] = Nodes[j].attrib["id"] => i = j
    /\ \A i \in DOMAIN Nodes : \A c \in NodeKeyColumns : ~HasTag(Nodes[i], c)

\* C4 as claimed: a way with a reference to a node the Nodes table lacks
\* does not make render_ways fail; its line has the coordinates of the
\* references that resolve, an empty line when none does.
C4_Claimed ==
    ( /\ Rendered \/ FailedIn("render_to_gdf")
      /\ PlainIds
      /\ \E k \in DOMAIN Ways : Resolvable(Ways[k]) # RefsOf(Ways[k]) ) =>
       /\ ~FailedIn("render_to_gdf")
       /\ (Rendered /\ heap["waynodes"].rows # <<>>) =>
             \A k \in DOMAIN Ways :
                /\ WayPart[k]["geometry"].kind = "LineString"
                /\ WayPart[k]["geometry"].coords \in LinesOf(Resolvable(Ways[k]))

\* C5 as claimed: with drop_untagged every node without tags (only id, lon,
\* lat) is absent from the points and every node with a non-denylisted tag
\* is present; without it every node is a point at (lon, lat), an untagged
\* one with nothing but its id; lon and lat are no columns of the points.
Untagged(e) == FindAll(e, "tag") = <<>> /\ DOMAIN e.attrib = NodeKeyColumns

C5_Claimed ==
    Rendered =>
       /\ \A i \in DOMAIN Nodes :
            IF result.drop_untagged
            THEN /\ Untagged(Nodes[i]) => PointOf(i) = {}
                 /\ KeptTags(Nodes[i]) # <<>> => PointOf(i) # {}
            ELSE /\ PointOf(i) # {}
                 /\ \A r \in PointOf(i) :
                      /\ Frame.rows[r]["geometry"] =
                            Point(heap["nodes"].rows[i]["lon"], heap["nodes"].rows[i]["lat"])
                      /\ Untagged(Nodes[i]) =>
                            DOMAIN NonNull(Frame.rows[r]) \subseteq {"id", "geometry"}
       /\ \A r \in DOMAIN Frame.rows :
            IsPointRow(Frame.rows[r]) =>
               \A c \in {"lon", "lat"} : c \in Frame.cols => IsNull(Frame.rows[r][c])

\* C8: render_to_gdf leaves the five tables as they were, whether it
\* returns or raises, with drop_untagged true or false.
C8_TablesUnchanged ==
    [][(pc \in {"data", "returned", "reordered"} /\ pc' \in {"rendered", "raised"}) => heap' = heap]_vars

\* Nodes and a way have been rendered with drop_untagged false, and the
\* tables still are what the readers built.
C8_Witness ==
    /\ Rendered
    /\ ~result.drop_untagged
    /\ \E r \in DOMAIN WayPart : WayPart[r]["geometry"].kind = "LineString"
    /\ \E r \in DOMAIN Frame.rows : IsPointRow(Frame.rows[r])
    /\ heap["nodes"] = read_nodes(doc)
    /\ {"lon", "lat"} \subseteq heap["nodes"].cols
    /\ heap["waytags"] = read_ways(doc).waytags
    /\ heap["waytags"].index = RangeIndex(Len(Ways))

\* C10 as claimed: the id of a way's WayNodes rows (its id attribute) always
\* equals the id of its WayTags row (from the flattened element), so that
\* render_ways returns one row per WayTags row and the row of every way
\* whose references all resolve (at least two) has the way's tags and the
\* line of the way's own references.
C10_Claimed ==
    PlainIdsButTags =>
       /\ WaysRead =>
            \A k \in DOMAIN Ways :
               heap["waytags"].rows[k]["id"] = Ways[k].attrib["id"]
       /\ (Rendered /\ heap["waynodes"].rows # <<>>) =>
            /\ Len(WayPart) = Len(heap["waytags"].rows)
            /\ \A k \in DOMAIN Ways :
                 (Len(RefsOf(Ways[k])) >= 2 /\ Resolvable(Ways[k]) = RefsOf(Ways[k])) =>
                    /\ WayPart[k]["geometry"].kind = "LineString"
                    /\ WayPart[k]["geometry"].coords \in LinesOf(RefsOf(Ways[k]))
                    /\ \A c \in DOMAIN ElementToDict(Ways[k]) \ {"id"} :
                         WayPart[k][c] = heap["waytags"].rows[k][c]

====
